---- MODULE Spec2Model ----
(***************************************************************************)
(* Verification model of the text-to-SQL pipeline:                         *)
(*   - generate_refine_execute  (services/pipeline_service.py)             *)
(*   - run_pipeline             (backend/app/services/evals.py)            *)
(*   - compute_metrics          (backend/app/services/metrics.py)          *)
(* Each has its own specification (SpecOne, SpecBatch, SpecMetrics) over   *)
(* the shared variable tuple; the variables of the other two components    *)
(* stay at their idle values.                                              *)
(***************************************************************************)
EXTENDS Integers, Sequences, FiniteSets, TLC

\* ---------------------------------------------------------------- bounds
NumQuestions == 2
NumSql == 2
NumErrors == 2
NumRows == 1
MaxBatch == 2
MaxItems == 1
MaxTime == 1

\* ---------------------------------------------------------------- values
\* Python None
None == <<>>

Questions == {<<"q", i>> : i \in 1..NumQuestions}
SqlTexts == {<<"sql", i>> : i \in 1..NumSql}
Exceptions == {<<"exc", i>> : i \in 1..NumErrors}
\* result sets of execute_sql; <<"rows", 0>> is the empty list []
RowSets == {<<"rows", i>> : i \in 0..NumRows}

\* module-level name read at line 9 (defined outside the excerpt)
system_message == <<"system_message">>

\* str(x): the text of a value, e.g. the message of an exception
Str(x) == <<"str", x>>

\* Python truthiness: None and the empty list are falsy
Truthy(v) == v # None /\ v # <<"rows", 0>>
\* a or b
PyOr(a, b) == IF Truthy(a) THEN a ELSE b

Last(s) == s[Len(s)]

VARIABLES
  \* --- generate_refine_execute: one invocation
  pc,           \* position of the coroutine
  question,     \* the argument
  initial_sql,  \* local, line 9
  refined_sql,  \* local, line 23
  err,          \* exception bound at line 21
  outcome,      \* the returned dict, None until a return statement runs
  raised,       \* the exception that left the coroutine, None if none
  calls,        \* log of the collaborator calls made, with their results
  \* --- run_pipeline
  bpc, df, idx, records, batchResult, batchRaised, invocations,
  \* --- compute_metrics
  mpc, items, llm_times, db_times, metrics

oneVars == <<pc, question, initial_sql, refined_sql, err, outcome, raised, calls>>
batchVars == <<bpc, df, idx, records, batchResult, batchRaised, invocations>>
metricVars == <<mpc, items, llm_times, db_times, metrics>>
vars == <<oneVars, batchVars, metricVars>>

\* idle values of the components a specification does not run
OneIdle ==
  /\ pc = "idle" /\ question = None /\ initial_sql = None /\ refined_sql = None
  /\ err = None /\ outcome = None /\ raised = None /\ calls = <<>>
BatchIdle ==
  /\ bpc = "idle" /\ df = <<>> /\ idx = 0 /\ records = <<>>
  /\ batchResult = None /\ batchRaised = None /\ invocations = <<>>
MetricsIdle ==
  /\ mpc = "idle" /\ items = <<>> /\ llm_times = <<>> /\ db_times = <<>>
  /\ metrics = None

(***************************************************************************)
(* generate_refine_execute                                                 *)
(***************************************************************************)
Call(fn, args, ok, ret) == [fn |-> fn, args |-> args, ok |-> ok, ret |-> ret]

\* the await at line 9
GenerateCall(q) == <<system_message, q>>
\* the await at line 23
RefineCall(sql, q, e) == <<sql, q>>

\* dict returned at lines 13-20
SuccessOutcome(isql, result) ==
  [initial_sql |-> isql, refined_sql |-> None, final_sql |-> isql,
   pipeline_status |-> "success", error |-> None, rows |-> result]
\* mutant: the refined branch reports the first candidate as final_sql
RefinedOutcome_FinalIsInitial(isql, rsql, result) ==
  [initial_sql |-> isql, refined_sql |-> rsql, final_sql |-> isql,
   pipeline_status |-> "refined_success", error |-> None, rows |-> result]
\* dict returned at lines 27-34
RefinedOutcome(isql, rsql, result) ==
  [initial_sql |-> isql, refined_sql |-> rsql, final_sql |-> rsql,
   pipeline_status |-> "refined_success", error |-> None, rows |-> result]
\* mutant: the failed branch still reports the refined candidate as final_sql
FailedOutcome_KeepsFinalSql(isql, rsql, err2) ==
  [initial_sql |-> isql, refined_sql |-> rsql, final_sql |-> rsql,
   pipeline_status |-> "failed", error |-> Str(err2), rows |-> None]
\* dict returned at lines 36-43
FailedOutcome(isql, rsql, err2) ==
  [initial_sql |-> isql, refined_sql |-> rsql, final_sql |-> None,
   pipeline_status |-> "failed", error |-> Str(err2), rows |-> None]

InitOne ==
  /\ pc = "line9"
  /\ question \in Questions
  /\ initial_sql = None /\ refined_sql = None /\ err = None
  /\ outcome = None /\ raised = None /\ calls = <<>>
  /\ BatchIdle /\ MetricsIdle

\* line 9: get_completion_from_messages returns a candidate
GenerateReturns(sql) ==
  /\ pc = "line9"
  /\ calls' = Append(calls, Call("generate", GenerateCall(question), TRUE, sql))
  /\ initial_sql' = sql
  /\ pc' = "line12"
  /\ UNCHANGED <<question, refined_sql, err, outcome, raised>>
  /\ UNCHANGED <<batchVars, metricVars>>

\* line 9: get_completion_from_messages raises; no handler encloses line 9
GenerateRaises(e) ==
  /\ pc = "line9"
  /\ calls' = Append(calls, Call("generate", GenerateCall(question), FALSE, e))
  /\ raised' = e
  /\ pc' = "raised"
  /\ UNCHANGED <<question, initial_sql, refined_sql, err, outcome>>
  /\ UNCHANGED <<batchVars, metricVars>>

\* lines 12-20: the first execute_sql returns rows
ExecuteInitialReturns(result) ==
  /\ pc = "line12"
  /\ calls' = Append(calls, Call("execute", <<initial_sql>>, TRUE, result))
  /\ outcome' = SuccessOutcome(initial_sql, result)
  /\ pc' = "returned"
  /\ UNCHANGED <<question, initial_sql, refined_sql, err, raised>>
  /\ UNCHANGED <<batchVars, metricVars>>

\* lines 12, 21: the first execute_sql raises, caught as err
ExecuteInitialRaises(e) ==
  /\ pc = "line12"
  /\ calls' = Append(calls, Call("execute", <<initial_sql>>, FALSE, e))
  /\ err' = e
  /\ pc' = "line23"
  /\ UNCHANGED <<question, initial_sql, refined_sql, outcome, raised>>
  /\ UNCHANGED <<batchVars, metricVars>>

\* line 23: refine_sql returns a candidate
RefineReturns(sql) ==
  /\ pc = "line23"
  /\ calls' = Append(calls, Call("refine", RefineCall(initial_sql, question, err), TRUE, sql))
  /\ refined_sql' = sql
  /\ pc' = "line26"
  /\ UNCHANGED <<question, initial_sql, err, outcome, raised>>
  /\ UNCHANGED <<batchVars, metricVars>>

\* line 23: refine_sql raises inside the except block; nothing catches it
RefineRaises(e) ==
  /\ pc = "line23"
  /\ calls' = Append(calls, Call("refine", RefineCall(initial_sql, question, err), FALSE, e))
  /\ raised' = e
  /\ pc' = "raised"
  /\ UNCHANGED <<question, initial_sql, refined_sql, err, outcome>>
  /\ UNCHANGED <<batchVars, metricVars>>

\* lines 26-34: the second execute_sql returns rows
ExecuteRefinedReturns(result) ==
  /\ pc = "line26"
  /\ calls' = Append(calls, Call("execute", <<refined_sql>>, TRUE, result))
  /\ outcome' = RefinedOutcome(initial_sql, refined_sql, result)
  /\ pc' = "returned"
  /\ UNCHANGED <<question, initial_sql, refined_sql, err, raised>>
  /\ UNCHANGED <<batchVars, metricVars>>

\* mutant: a failed second execution loops back to the refiner
ExecuteRefinedRaises_Retries(err2) ==
  /\ pc = "line26"
  /\ calls' = Append(calls, Call("execute", <<refined_sql>>, FALSE, err2))
  /\ err' = err2
  /\ pc' = "line23"
  /\ UNCHANGED <<question, initial_sql, refined_sql, outcome, raised>>
  /\ UNCHANGED <<batchVars, metricVars>>
\* lines 26, 35-43: the second execute_sql raises, caught as err2
ExecuteRefinedRaises(err2) ==
  /\ pc = "line26"
  /\ calls' = Append(calls, Call("execute", <<refined_sql>>, FALSE, err2))
  /\ outcome' = FailedOutcome(initial_sql, refined_sql, err2)
  /\ pc' = "returned"
  /\ UNCHANGED <<question, initial_sql, refined_sql, err, raised>>
  /\ UNCHANGED <<batchVars, metricVars>>

NextOne ==
  \/ \E sql \in SqlTexts : GenerateReturns(sql)
  \/ \E e \in Exceptions : GenerateRaises(e)
  \/ \E result \in RowSets : ExecuteInitialReturns(result)
  \/ \E e \in Exceptions : ExecuteInitialRaises(e)
  \/ \E sql \in SqlTexts : RefineReturns(sql)
  \/ \E e \in Exceptions : RefineRaises(e)
  \/ \E result \in RowSets : ExecuteRefinedReturns(result)
  \/ \E e \in Exceptions : ExecuteRefinedRaises(e)

SpecOne == InitOne /\ [][NextOne]_vars

\* ------------------------------------------------ properties of runOne
CountCalls(fn) == Cardinality({i \in DOMAIN calls : calls[i].fn = fn})
SuccessStatuses == {"success", "refined_success"}

\* C1: runOne always ends by returning one outcome record and no exception
\* leaves it; when the generator raises, the outcome has status error with
\* initial_sql and final_sql absent.
C1_NothingEscapesRunOne ==
  /\ raised = None
  /\ pc # "raised"
  /\ (calls # <<>> /\ ~calls[1].ok) =>
       (/\ outcome # None
        /\ outcome.pipeline_status = "error"
        /\ outcome.initial_sql = None
        /\ outcome.final_sql = None)

\* C2: when generation succeeds, the initial execution fails and the refiner
\* fails, runOne returns an outcome with status failed, refined_sql and
\* final_sql absent and error equal to the refiner's message.
C2_RefinerFailureReturnsFailed ==
  (calls # <<>> /\ Last(calls).fn = "refine" /\ ~Last(calls).ok) =>
    (/\ pc = "returned"
     /\ outcome # None
     /\ outcome.pipeline_status = "failed"
     /\ outcome.refined_sql = None
     /\ outcome.final_sql = None
     /\ outcome.error = Str(Last(calls).ret))

\* C3: in a success or refined_success outcome, final_sql is the candidate
\* whose execution succeeded and rows is the result of that execution; after
\* a successful initial execution status is success, final_sql = initial_sql
\* and refined_sql is absent; after a failed initial execution followed by a
\* successful refinement and second execution status is refined_success,
\* final_sql = refined_sql and initial_sql and refined_sql are both present.
C3_FinalSqlIsTheExecutedCandidate ==
  (pc = "returned" /\ outcome.pipeline_status \in SuccessStatuses) =>
    LET c == Last(calls) IN
    /\ c.fn = "execute" /\ c.ok
    /\ outcome.final_sql = c.args[1]
    /\ outcome.rows = c.ret
    /\ Len(calls) = 2 =>
         /\ outcome.pipeline_status = "success"
         /\ outcome.initial_sql = calls[1].ret
         /\ outcome.final_sql = outcome.initial_sql
         /\ outcome.refined_sql = None
    /\ Len(calls) = 4 =>
         /\ outcome.pipeline_status = "refined_success"
         /\ outcome.initial_sql = calls[1].ret
         /\ outcome.refined_sql = calls[3].ret
         /\ outcome.final_sql = outcome.refined_sql
         /\ outcome.initial_sql # None
         /\ outcome.refined_sql # None
    /\ Len(calls) \in {2, 4}

C3_Witness ==
  /\ pc = "returned"
  /\ outcome.pipeline_status = "refined_success"
  /\ outcome.refined_sql # outcome.initial_sql
  /\ outcome.rows = <<"rows", NumRows>>

\* C4: in every returned outcome, final_sql is present exactly when status is
\* success or refined_success, and so is rows.
C4_FinalSqlAndRowsIffSuccess ==
  pc = "returned" =>
    /\ (outcome.final_sql # None) <=> (outcome.pipeline_status \in SuccessStatuses)
    /\ (outcome.rows # None) <=> (outcome.pipeline_status \in SuccessStatuses)

C4_Witness ==
  /\ pc = "returned"
  /\ outcome.pipeline_status = "failed"
  /\ outcome.final_sql = None
  /\ outcome.refined_sql # None

\* C5: the generator is called exactly once and before any execution; the
\* refiner at most once and only right after the initial execution failed;
\* the executor at most twice, the second time only with the candidate the
\* refiner returned; a failed second execution is the last call of the run.
C5_CallsOrderedAndBounded ==
  /\ CountCalls("generate") <= 1
  /\ pc # "line9" => (CountCalls("generate") = 1 /\ calls[1].fn = "generate")
  /\ CountCalls("refine") <= 1
  /\ CountCalls("execute") <= 2
  /\ \A i \in DOMAIN calls :
       /\ calls[i].fn = "execute" =>
            \E j \in 1..(i - 1) : calls[j].fn = "generate" /\ calls[j].ok
       /\ calls[i].fn = "refine" =>
            /\ i = 3
            /\ calls[2].fn = "execute" /\ ~calls[2].ok
            /\ calls[2].args = <<calls[1].ret>>
       /\ (calls[i].fn = "execute" /\ \E j \in 1..(i - 1) : calls[j].fn = "execute") =>
            /\ calls[i - 1].fn = "refine" /\ calls[i - 1].ok
            /\ calls[i].args = <<calls[i - 1].ret>>
            /\ ~calls[i].ok => (i = Len(calls) /\ pc = "returned")
  /\ pc \in {"returned", "raised"} => ~ENABLED NextOne

C5_Witness ==
  /\ pc = "returned"
  /\ Len(calls) = 4
  /\ calls[4].fn = "execute" /\ ~calls[4].ok
  /\ calls[3].fn = "refine"

\* C10: whenever the refiner is called it receives the failed initial_sql,
\* the original question and the message of the error the initial execution
\* raised in this invocation.
C10_RefinerReceivesExecutionError ==
  \A i \in DOMAIN calls :
    calls[i].fn = "refine" => calls[i].args = <<initial_sql, question, Str(err)>>



(***************************************************************************)
(* run_pipeline                                                            *)
(***************************************************************************)
\* rows of the input frame
FrameRows ==
  {[Question |-> q, GroundTruthSQL |-> <<"gt_sql", q[2]>>,
    GroundTruthResponse |-> <<"gt_rows", q[2]>>] : q \in Questions}

\* what fetch_context may return
Contexts == {None, <<"ctx", 1>>}
\* what handle_query may return, as the dict `out` of line 66
Responses ==
  [final_sql : {None} \cup SqlTexts,
   sql_query : {None, <<"sql", 1>>},
   query_execution_response : {None, <<"rows", 1>>},
   rows : {None, <<"rows", 0>>}]

\* line 61
UserCtx(ctx) == IF ctx # None THEN Str(ctx) ELSE None
\* line 63
Request(q, user_ctx) == [user_question |-> q, user_context |-> user_ctx]
\* lines 67-75
Record(row, user_ctx, out) ==
  [Question |-> row.Question,
   UserContext |-> user_ctx,
   GeneratedSQL |-> PyOr(out.final_sql, out.sql_query),
   GeneratedResponse |-> PyOr(out.query_execution_response, out.rows),
   GroundTruthSQL |-> row.GroundTruthSQL,
   GroundTruthResponse |-> row.GroundTruthResponse]

InitBatch ==
  /\ bpc = "loop"
  /\ \E n \in 0..MaxBatch : df \in [1..n -> FrameRows]
  /\ idx = 1
  /\ records = <<>>
  /\ batchResult = None /\ batchRaised = None /\ invocations = <<>>
  /\ OneIdle /\ MetricsIdle

\* mutant: the new record is put in front of the collected ones
Iterate_Prepends(ctx, out) ==
  /\ bpc = "loop" /\ idx <= Len(df)
  /\ LET row == df[idx]
         user_ctx == UserCtx(ctx)
         req == Request(row.Question, user_ctx)
     IN /\ invocations' = Append(invocations, [req |-> req, ok |-> TRUE, ret |-> out])
        /\ records' = <<Record(row, user_ctx, out)>> \o records
  /\ idx' = idx + 1
  /\ UNCHANGED <<bpc, df, batchResult, batchRaised>>
  /\ UNCHANGED <<oneVars, metricVars>>
\* lines 57-75: one iteration in which both awaits return
Iterate(ctx, out) ==
  /\ bpc = "loop" /\ idx <= Len(df)
  /\ LET row == df[idx]
         user_ctx == UserCtx(ctx)
         req == Request(row.Question, user_ctx)
     IN /\ invocations' = Append(invocations, [req |-> req, ok |-> TRUE, ret |-> out])
        /\ records' = Append(records, Record(row, user_ctx, out))
  /\ idx' = idx + 1
  /\ UNCHANGED <<bpc, df, batchResult, batchRaised>>
  /\ UNCHANGED <<oneVars, metricVars>>

\* line 60: fetch_context raises; run_pipeline has no handler
FetchContextRaises(e) ==
  /\ bpc = "loop" /\ idx <= Len(df)
  /\ batchRaised' = e
  /\ bpc' = "raised"
  /\ UNCHANGED <<df, idx, records, batchResult, invocations>>
  /\ UNCHANGED <<oneVars, metricVars>>

\* line 65: handle_query raises; run_pipeline has no handler
HandleQueryRaises(ctx, e) ==
  /\ bpc = "loop" /\ idx <= Len(df)
  /\ LET req == Request(df[idx].Question, UserCtx(ctx))
     IN invocations' = Append(invocations, [req |-> req, ok |-> FALSE, ret |-> e])
  /\ batchRaised' = e
  /\ bpc' = "raised"
  /\ UNCHANGED <<df, idx, records, batchResult>>
  /\ UNCHANGED <<oneVars, metricVars>>

\* line 76: the loop is exhausted, the collected records are returned
ReturnFrame ==
  /\ bpc = "loop" /\ idx > Len(df)
  /\ batchResult' = records
  /\ bpc' = "done"
  /\ UNCHANGED <<df, idx, records, batchRaised, invocations>>
  /\ UNCHANGED <<oneVars, metricVars>>

NextBatch ==
  \/ \E ctx \in Contexts, out \in Responses : Iterate(ctx, out)
  \/ \E e \in Exceptions : FetchContextRaises(e)
  \/ \E ctx \in Contexts, e \in Exceptions : HandleQueryRaises(ctx, e)
  \/ ReturnFrame

SpecBatch == InitBatch /\ [][NextBatch]_vars

\* ---------------------------------------------- properties of runBatch
\* C6: when a question's pipeline invocation raises, run_pipeline catches it,
\* records an outcome with status error and the caught message for that
\* question, and goes on with the remaining questions: the batch is never
\* aborted and no question is dropped.
C6_BatchSurvivesQuestionFailure ==
  /\ bpc # "raised"
  /\ batchRaised = None
  /\ \A i \in DOMAIN invocations :
       ~invocations[i].ok =>
         /\ Len(records) >= i
         /\ records[i].Question = df[i].Question
  /\ bpc = "done" => Len(batchResult) = Len(df)

\* C7: a returned batch result has one record per input question, the i-th
\* record being that of the i-th question and built from the i-th
\* invocation; identical questions each keep their own record.
C7_LengthAndOrderPreserved ==
  bpc = "done" =>
    /\ Len(batchResult) = Len(df)
    /\ Len(invocations) = Len(df)
    /\ \A i \in 1..Len(df) :
         /\ batchResult[i].Question = df[i].Question
         /\ invocations[i].req.user_question = df[i].Question
         /\ batchResult[i].UserContext = invocations[i].req.user_context
         /\ batchResult[i].GeneratedSQL =
              PyOr(invocations[i].ret.final_sql, invocations[i].ret.sql_query)
         /\ batchResult[i].GeneratedResponse =
              PyOr(invocations[i].ret.query_execution_response, invocations[i].ret.rows)

C7_Witness ==
  /\ bpc = "done"
  /\ Len(df) = MaxBatch
  /\ df[1] = df[2]
  /\ batchResult[1] # batchResult[2]
  /\ batchResult[1].Question = batchResult[2].Question


(***************************************************************************)
(* compute_metrics                                                         *)
(* Timestamps are ISO strings of whole milliseconds; fractional results    *)
(* (rates, means) are kept in hundredths, the precision round(x, 2) keeps. *)
(* The per-user counts of lines 80-82 read no timestamp and no status and  *)
(* are not part of the modelled result.                                    *)
(***************************************************************************)
\* a key the document does not have: d['k'] raises KeyError
Missing == <<"missing">>
\* a string datetime.fromisoformat rejects with ValueError
Malformed == <<"malformed">>
IsoStrings == {<<"iso", t>> : t \in 0..MaxTime}
TimestampValues == {Missing, Malformed} \cup IsoStrings

Documents ==
  [status : {"Success", "Failed"},
   timestamp_query_asked : TimestampValues,
   timestamp_query_generated : TimestampValues,
   timestamp_query_executed : TimestampValues]

\* datetime.fromisoformat(d[k]) returns (does not raise)
Parses(v) == v \in IsoStrings
\* the instant it returns, in milliseconds
FromIso(v) == v[2]

\* a Python number with two decimals, h hundredths
Num(h) == <<"num", h>>

\* round(n / d, 0) for d > 0, ties to even as Python's round
RoundDiv(n, d) ==
  LET q == n \div d
      r == n % d
  IN IF 2 * r < d THEN q
     ELSE IF 2 * r > d THEN q + 1
     ELSE IF q % 2 = 0 THEN q ELSE q + 1

RECURSIVE SumMs(_)
SumMs(times) == IF times = <<>> THEN 0 ELSE times[1][2] + SumMs(Tail(times))

\* line 60
Successes(its) == Cardinality({i \in DOMAIN its : its[i].status = "Success"})
\* line 62, in hundredths of a percent
SuccessRate(successes, total) ==
  IF total # 0 THEN Num(RoundDiv(successes * 100 * 100, total)) ELSE Num(0)

\* lines 68-75: the statements of the try block all complete
TryCompletes(d) ==
  /\ Parses(d.timestamp_query_asked)
  /\ Parses(d.timestamp_query_generated)
  /\ Parses(d.timestamp_query_executed)
\* line 72
LlmMs(d) == FromIso(d.timestamp_query_generated) - FromIso(d.timestamp_query_asked)
\* line 73
DbMs(d) == FromIso(d.timestamp_query_executed) - FromIso(d.timestamp_query_generated)

\* lines 67-75: the lists after the loop; each element is <<i, ms>>, the
\* latency appended and the index of the item it was computed from
RECURSIVE LoopLlm(_, _)
LoopLlm(its, i) ==
  IF i > Len(its) THEN <<>>
  ELSE (IF TryCompletes(its[i]) THEN <<(<<i, LlmMs(its[i])>>)>> ELSE <<>>)
       \o LoopLlm(its, i + 1)
RECURSIVE LoopDb(_, _)
LoopDb(its, i) ==
  IF i > Len(its) THEN <<>>
  ELSE (IF TryCompletes(its[i]) THEN <<(<<i, DbMs(its[i])>>)>> ELSE <<>>)
       \o LoopDb(its, i + 1)

\* mutant: an empty list averages to 0
AvgOrNone_ZeroWhenEmpty(times) ==
  IF times # <<>> THEN Num(RoundDiv(SumMs(times) * 100, Len(times))) ELSE Num(0)
\* lines 77-78, in hundredths of a millisecond
AvgOrNone(times) ==
  IF times # <<>> THEN Num(RoundDiv(SumMs(times) * 100, Len(times))) ELSE None

\* lines 84-92
MetricsDict(total, successes, failures, success_rate, avg_llm, avg_db) ==
  [total_queries |-> total,
   successful_queries |-> successes,
   failed_queries |-> failures,
   success_rate_pct |-> success_rate,
   avg_llm_latency_ms |-> avg_llm,
   avg_db_latency_ms |-> avg_db]

InitMetrics ==
  /\ mpc = "start"
  /\ \E n \in 0..MaxItems : items \in [1..n -> Documents]
  /\ llm_times = <<>> /\ db_times = <<>>
  /\ metrics = None
  /\ OneIdle /\ BatchIdle

\* lines 59-92
ComputeMetrics ==
  /\ mpc = "start"
  /\ LET total == Len(items)
         successes == Successes(items)
         failures == total - successes
         success_rate == SuccessRate(successes, total)
         llm == LoopLlm(items, 1)
         db == LoopDb(items, 1)
     IN /\ llm_times' = llm
        /\ db_times' = db
        /\ metrics' = MetricsDict(total, successes, failures, success_rate,
                                  AvgOrNone(llm), AvgOrNone(db))
  /\ mpc' = "done"
  /\ UNCHANGED items
  /\ UNCHANGED <<oneVars, batchVars>>

NextMetrics ==
  \/ ComputeMetrics

SpecMetrics == InitMetrics /\ [][NextMetrics]_vars

\* ---------------------------------------- properties of compute_metrics
\* both timestamps of a pair are present and parse, and the later one is not
\* before the earlier one
PairUsable(a, b) == Parses(a) /\ Parses(b) /\ FromIso(b) >= FromIso(a)

\* C8: a record contributes to the generation latency only if asked and
\* generated are both usable and generated >= asked, and to the execution
\* latency only if generated and executed are both usable and
\* executed >= generated; a record with a missing, unparseable or inverted
\* pair is not in that dimension's list, yet counts in total.
C8_LatencyExcludesUnusablePairs ==
  mpc = "done" =>
    /\ metrics.total_queries = Len(items)
    /\ \A k \in DOMAIN llm_times :
         LET d == items[llm_times[k][1]]
         IN PairUsable(d.timestamp_query_asked, d.timestamp_query_generated)
    /\ \A k \in DOMAIN db_times :
         LET d == items[db_times[k][1]]
         IN PairUsable(d.timestamp_query_generated, d.timestamp_query_executed)

\* C9: on an empty record set compute_metrics completes with total 0 and
\* success rate 0; a latency dimension nothing contributed to reports its
\* mean as None.
C9_NoDivisionByZero ==
  /\ mpc = "start" => ENABLED ComputeMetrics
  /\ mpc = "done" =>
       /\ metrics # None
       /\ items = <<>> =>
            /\ metrics.total_queries = 0
            /\ metrics.success_rate_pct = Num(0)
       /\ llm_times = <<>> => metrics.avg_llm_latency_ms = None
       /\ db_times = <<>> => metrics.avg_db_latency_ms = None

C9_Witness ==
  /\ mpc = "done"
  /\ items = <<>>
  /\ metrics.total_queries = 0
  /\ metrics.success_rate_pct = Num(0)
  /\ metrics.avg_llm_latency_ms = None

====
